---- MODULE Spec2Model ----
\* Model of scripts/update-services.sh: the ECS fleet redeployment run
\* (prerequisites, trigger loop, wait loop, final health check, summary)
\* as bash executes it under `set -e`.
EXTENDS Integers, Sequences, FiniteSets, TLC

VARIABLES SERVICES, WAIT_FOR_STABLE, pc, idx, failed_services,
          updated_services, calls, awsCalls, summary, exitCode

vars == <<SERVICES, WAIT_FOR_STABLE, pc, idx, failed_services,
          updated_services, calls, awsCalls, summary, exitCode>>

\* State of scripts/build-and-push.sh (its SERVICES, failed_services, ...).
VARIABLES bp_SERVICES, bp_pc, bp_idx, bp_failed_services, bp_calls,
          bp_cmds, bp_exitCode

bpVars == <<bp_SERVICES, bp_pc, bp_idx, bp_failed_services, bp_calls,
            bp_cmds, bp_exitCode>>

\* State of the frontend App (tasks, its requests in flight, how the last
\* one ended) and of the tasks service (tasks.txt, whether the process has
\* died), with the record of the tasks stored and of any failed request.
VARIABLES tasks, requests, nextId, delivery, file, crashed, stored, anyFailure

appVars == <<tasks, requests, nextId, delivery, file, crashed, stored, anyFailure>>

\* The variables update-services.sh does not touch.
otherThanUpdate == <<bpVars, appVars>>

\* The variables build-and-push.sh does not touch.
otherThanBuild == <<vars, appVars>>

\* The variables the App and the tasks service do not touch.
otherThanApp == <<vars, bpVars>>

\* ---------------------------------------------------------------- bounds
\* Largest running/desired task count a describe-services answer carries.
MaxCount == 2

\* ------------------------------------------------- inputs of the script
\* The fleet default set of line 24.
DefaultServices == <<"auth", "users", "tasks", "frontend">>

\* Values of the positional argument $1 ("" is: no argument).
Args == {"", "auth", "frontend", "gateway"}

\* Values of the environment variable WAIT_FOR_STABLE ("" is: unset/empty).
WaitEnv == {"", "true", "false", "TRUE"}

\* Exit statuses with which a failing aws command ends.
AwsFailCodes == {254, 255}

AwsExitCodes == {0} \cup AwsFailCodes

\* Texts `--query services[0].status --output text` prints on success.
StatusTexts == {"ACTIVE", "DRAINING", "INACTIVE", "None"}

\* The exit status of a process that has not exited.
Running == -1

\* ------------------------------------------------- configuration (17-27)
\* SERVICES of lines 23-27: the default set, or the one named service.
ServicesOf(arg) == IF arg = "" THEN DefaultServices ELSE <<arg>>

\* "${WAIT_FOR_STABLE:-true}" of line 20: unset or empty gives "true".
WaitForStableOf(env) == IF env = "" THEN "true" ELSE env

\* ------------------------------------------------- answers of the aws CLI
\* describe-services --query services[0].status: the text on success,
\* nothing on failure (stderr is discarded).
StatusResponses ==
    {[rc |-> 0, out |-> s] : s \in StatusTexts}
      \cup {[rc |-> c, out |-> ""] : c \in AwsFailCodes}

\* describe-services --query services[0].runningCount / desiredCount.
CountResponses ==
    {[rc |-> 0, out |-> ToString(n)] : n \in 0..MaxCount}
      \cup {[rc |-> 0, out |-> "None"]}
      \cup {[rc |-> c, out |-> ""] : c \in AwsFailCodes}

\* ------------------------------------------------- pure parts of the code
\* Is the text a decimal integer, as `[ a -eq b ]` requires.
IsIntegerText(s) == \E n \in 0..MaxCount : ToString(n) = s

ParseInt(s) == CHOOSE n \in 0..MaxCount : ToString(n) = s

\* Exit status of `[ "$a" -eq "$b" ]`: 0 equal, 1 different, 2 when an
\* operand is not an integer ("integer expression expected").
TestEq(a, b) ==
    IF IsIntegerText(a) /\ IsIntegerText(b)
    THEN (IF ParseInt(a) = ParseInt(b) THEN 0 ELSE 1)
    ELSE 2

\* Return status of update_service given the status text and the exit
\* status of the update-service command (lines 79-100).
UpdateServiceReturn(status, updRc) ==
    IF status # "ACTIVE" THEN 1
    ELSE IF updRc = 0 THEN 0 ELSE 1

\* update_service without the test of line 79.
UpdateServiceAws_NoStatusTest(svc, st, updRc) ==
    <<[cmd |-> "describe-status", svc |-> svc, rc |-> st.rc, out |-> st.out],
      [cmd |-> "update-service", svc |-> svc, rc |-> updRc, out |-> ""]>>

\* The aws commands update_service issues (lines 72-92).
UpdateServiceAws(svc, st, updRc) ==
    <<[cmd |-> "describe-status", svc |-> svc, rc |-> st.rc, out |-> st.out]>>
      \o (IF st.out # "ACTIVE" THEN <<>>
          ELSE <<[cmd |-> "update-service", svc |-> svc, rc |-> updRc, out |-> ""]>>)

\* Return status of wait_for_service (lines 117-124).
WaitForServiceReturn(waitRc) == IF waitRc = 0 THEN 0 ELSE 1

\* Return status of check_service_health (lines 165-171): the else branch
\* is taken for every non-zero status of the test.
CheckServiceHealthReturn(running, desired) ==
    IF TestEq(running, desired) = 0 THEN 0 ELSE 1

\* update-services.sh is not running.
US_Idle ==
    /\ SERVICES = <<>>
    /\ WAIT_FOR_STABLE = "true"
    /\ pc = "idle"
    /\ idx = 1
    /\ failed_services = <<>>
    /\ updated_services = <<>>
    /\ calls = <<>>
    /\ awsCalls = <<>>
    /\ summary = <<>>
    /\ exitCode = Running

\* A task {title, text}; a string is the sequence of its pieces.
Task(title, text) == [title |-> title, text |-> text]

\* The value of the tasks state: an array with its items, or not an array.
Arr(items) == [isArray |-> TRUE, items |-> items]

\* What fetch has when no response has arrived.
NoResponse ==
    [from |-> "none", ok |-> FALSE, shape |-> "none", tasks |-> <<>>, created |-> <<>>]

\* The App is not mounted and the tasks service is not started.
App_Idle ==
    /\ tasks = Arr(<<>>)
    /\ requests = {}
    /\ nextId = 0
    /\ delivery = "none"
    /\ file = <<>>
    /\ crashed = FALSE
    /\ stored = <<>>
    /\ anyFailure = FALSE

\* build-and-push.sh is not running.
BP_Idle ==
    /\ bp_SERVICES = <<>>
    /\ bp_pc = "idle"
    /\ bp_idx = 1
    /\ bp_failed_services = <<>>
    /\ bp_calls = <<>>
    /\ bp_cmds = <<>>
    /\ bp_exitCode = Running

\* ------------------------------------------------------------------ Init
Init ==
    /\ \E arg \in Args : SERVICES = ServicesOf(arg)
    /\ \E env \in WaitEnv : WAIT_FOR_STABLE = WaitForStableOf(env)
    /\ pc = "prerequisites"
    /\ idx = 1
    /\ failed_services = <<>>
    /\ updated_services = <<>>
    /\ calls = <<>>
    /\ awsCalls = <<>>
    /\ summary = <<>>
    /\ exitCode = Running
    /\ BP_Idle
    /\ App_Idle

\* The process ends with the given status (exit, or set -e).
Exit(code) ==
    /\ pc' = "done"
    /\ exitCode' = code

\* --------------------------------------------------------------- actions
\* check_prerequisites without the exit of line 58.
CheckPrerequisites_IgnoresCluster ==
    /\ pc = "prerequisites"
    /\ \E installed \in BOOLEAN, clusterRc \in AwsExitCodes :
         IF ~installed
         THEN /\ Exit(1)
              /\ UNCHANGED <<idx, awsCalls>>
         ELSE /\ awsCalls' = Append(awsCalls,
                     [cmd |-> "describe-clusters", svc |-> "", rc |-> clusterRc,
                      out |-> ""])
              /\ pc' = "trigger"
              /\ idx' = 1
              /\ UNCHANGED exitCode
    /\ UNCHANGED <<SERVICES, WAIT_FOR_STABLE, failed_services,
                   updated_services, calls, summary>>
    /\ UNCHANGED otherThanUpdate

\* check_prerequisites (lines 47-62), called at line 188.
CheckPrerequisites ==
    /\ pc = "prerequisites"
    /\ \E installed \in BOOLEAN, clusterRc \in AwsExitCodes :
         IF ~installed
         THEN /\ Exit(1)
              /\ UNCHANGED <<idx, awsCalls>>
         ELSE /\ awsCalls' = Append(awsCalls,
                     [cmd |-> "describe-clusters", svc |-> "", rc |-> clusterRc,
                      out |-> ""])
              /\ IF clusterRc # 0
                 THEN /\ Exit(1)
                      /\ UNCHANGED idx
                 ELSE /\ pc' = "trigger"
                      /\ idx' = 1
                      /\ UNCHANGED exitCode
    /\ UNCHANGED <<SERVICES, WAIT_FOR_STABLE, failed_services,
                   updated_services, calls, summary>>
    /\ UNCHANGED otherThanUpdate

\* The trigger loop left at the first failed update_service.
TriggerService_BreakOnFailure ==
    /\ pc = "trigger"
    /\ idx <= Len(SERVICES)
    /\ \E st \in StatusResponses, updRc \in AwsExitCodes :
         LET service == SERVICES[idx]
             ret == UpdateServiceReturn(st.out, updRc)
         IN /\ awsCalls' = awsCalls \o UpdateServiceAws(service, st, updRc)
            /\ calls' = Append(calls,
                   [fn |-> "update_service", svc |-> service, rc |-> ret])
            /\ IF ret = 0
               THEN /\ updated_services' = Append(updated_services, service)
                    /\ idx' = idx + 1
                    /\ UNCHANGED failed_services
               ELSE /\ failed_services' = Append(failed_services, service)
                    /\ idx' = Len(SERVICES) + 1
                    /\ UNCHANGED updated_services
    /\ UNCHANGED <<SERVICES, WAIT_FOR_STABLE, pc, summary, exitCode>>
    /\ UNCHANGED otherThanUpdate

\* One iteration of the trigger loop (lines 195-206) with the call of
\* update_service (lines 65-101) it makes.
TriggerService ==
    /\ pc = "trigger"
    /\ idx <= Len(SERVICES)
    /\ \E st \in StatusResponses, updRc \in AwsExitCodes :
         LET service == SERVICES[idx]
             ret == UpdateServiceReturn(st.out, updRc)
         IN /\ awsCalls' = awsCalls \o UpdateServiceAws(service, st, updRc)
            /\ calls' = Append(calls,
                   [fn |-> "update_service", svc |-> service, rc |-> ret])
            /\ IF ret = 0
               THEN /\ updated_services' = Append(updated_services, service)
                    /\ UNCHANGED failed_services
               ELSE /\ failed_services' = Append(failed_services, service)
                    /\ UNCHANGED updated_services
    /\ idx' = idx + 1
    /\ UNCHANGED <<SERVICES, WAIT_FOR_STABLE, pc, summary, exitCode>>
    /\ UNCHANGED otherThanUpdate

\* The end of the trigger loop without the exit of lines 209-212.
TriggerDone_NoFailFast ==
    /\ pc = "trigger"
    /\ idx > Len(SERVICES)
    /\ pc' = IF WAIT_FOR_STABLE = "true" THEN "wait" ELSE "health"
    /\ idx' = 1
    /\ UNCHANGED <<SERVICES, WAIT_FOR_STABLE, failed_services,
                   updated_services, calls, awsCalls, summary, exitCode>>
    /\ UNCHANGED otherThanUpdate

\* The end of the trigger loop that exits only when nothing was triggered.
TriggerDone_ExitWhenNoneUpdated ==
    /\ pc = "trigger"
    /\ idx > Len(SERVICES)
    /\ IF Len(updated_services) = 0
       THEN /\ summary' = Append(summary,
                   [level |-> "error", msg |-> "Failed to update services",
                    services |-> failed_services])
            /\ Exit(1)
            /\ UNCHANGED idx
       ELSE /\ pc' = IF WAIT_FOR_STABLE = "true" THEN "wait" ELSE "health"
            /\ idx' = 1
            /\ UNCHANGED <<summary, exitCode>>
    /\ UNCHANGED <<SERVICES, WAIT_FOR_STABLE, failed_services,
                   updated_services, calls, awsCalls>>
    /\ UNCHANGED otherThanUpdate

\* The end of the trigger loop taken one service early.
TriggerDone_Early ==
    /\ pc = "trigger"
    /\ idx >= Len(SERVICES)
    /\ IF Len(failed_services) > 0
       THEN /\ summary' = Append(summary,
                   [level |-> "error", msg |-> "Failed to update services",
                    services |-> failed_services])
            /\ Exit(1)
            /\ UNCHANGED idx
       ELSE /\ pc' = IF WAIT_FOR_STABLE = "true" THEN "wait" ELSE "health"
            /\ idx' = 1
            /\ UNCHANGED <<summary, exitCode>>
    /\ UNCHANGED <<SERVICES, WAIT_FOR_STABLE, failed_services,
                   updated_services, calls, awsCalls>>
    /\ UNCHANGED otherThanUpdate

\* End of the trigger loop: the exit of lines 209-212, else the test of
\* line 215 that selects the wait loop or the final health check.
TriggerDone ==
    /\ pc = "trigger"
    /\ idx > Len(SERVICES)
    /\ IF Len(failed_services) > 0
       THEN /\ summary' = Append(summary,
                   [level |-> "error", msg |-> "Failed to update services",
                    services |-> failed_services])
            /\ Exit(1)
            /\ UNCHANGED idx
       ELSE /\ pc' = IF WAIT_FOR_STABLE = "true" THEN "wait" ELSE "health"
            /\ idx' = 1
            /\ UNCHANGED <<summary, exitCode>>
    /\ UNCHANGED <<SERVICES, WAIT_FOR_STABLE, failed_services,
                   updated_services, calls, awsCalls>>
    /\ UNCHANGED otherThanUpdate

\* The wait loop that waits a second time for a service whose wait failed.
WaitService_RetryOnce ==
    /\ pc = "wait"
    /\ idx <= Len(updated_services)
    /\ \E waitRc \in AwsExitCodes :
         LET service == updated_services[idx]
             ret == WaitForServiceReturn(waitRc)
             first == \A i \in DOMAIN calls :
                         ~(calls[i].fn = "wait_for_service" /\ calls[i].svc = service)
         IN /\ awsCalls' = Append(awsCalls,
                   [cmd |-> "wait-services-stable", svc |-> service, rc |-> waitRc,
                    out |-> ""])
            /\ calls' = Append(calls,
                   [fn |-> "wait_for_service", svc |-> service, rc |-> ret])
            /\ failed_services' = IF ret # 0 /\ ~first
                                  THEN Append(failed_services, service)
                                  ELSE failed_services
            /\ idx' = IF ret # 0 /\ first THEN idx ELSE idx + 1
    /\ UNCHANGED <<SERVICES, WAIT_FOR_STABLE, pc, updated_services,
                   summary, exitCode>>
    /\ UNCHANGED otherThanUpdate

\* One iteration of the wait loop (lines 221-226) with the call of
\* wait_for_service (lines 104-125) it makes.
WaitService ==
    /\ pc = "wait"
    /\ idx <= Len(updated_services)
    /\ \E waitRc \in AwsExitCodes :
         LET service == updated_services[idx]
             ret == WaitForServiceReturn(waitRc)
         IN /\ awsCalls' = Append(awsCalls,
                   [cmd |-> "wait-services-stable", svc |-> service, rc |-> waitRc,
                    out |-> ""])
            /\ calls' = Append(calls,
                   [fn |-> "wait_for_service", svc |-> service, rc |-> ret])
            /\ failed_services' = IF ret # 0
                                  THEN Append(failed_services, service)
                                  ELSE failed_services
    /\ idx' = idx + 1
    /\ UNCHANGED <<SERVICES, WAIT_FOR_STABLE, pc, updated_services,
                   summary, exitCode>>
    /\ UNCHANGED otherThanUpdate

\* End of the wait loop (line 226): on to the final health check.
WaitDone ==
    /\ pc = "wait"
    /\ idx > Len(updated_services)
    /\ pc' = "health"
    /\ idx' = 1
    /\ UNCHANGED <<SERVICES, WAIT_FOR_STABLE, failed_services,
                   updated_services, calls, awsCalls, summary, exitCode>>
    /\ UNCHANGED otherThanUpdate

\* The health loop that passes over the services whose wait failed.
CheckServiceHealth_SkipsFailed ==
    /\ pc = "health"
    /\ idx <= Len(updated_services)
    /\ IF \E k \in DOMAIN failed_services : failed_services[k] = updated_services[idx]
       THEN /\ idx' = idx + 1
            /\ UNCHANGED <<pc, exitCode, calls, awsCalls>>
       ELSE /\ \E run \in CountResponses, des \in CountResponses :
                 LET service == updated_services[idx]
                     ret == CheckServiceHealthReturn(run.out, des.out)
                 IN /\ awsCalls' = awsCalls \o
                           <<[cmd |-> "describe-runningCount", svc |-> service,
                              rc |-> run.rc, out |-> run.out],
                             [cmd |-> "describe-desiredCount", svc |-> service,
                              rc |-> des.rc, out |-> des.out]>>
                    /\ calls' = Append(calls,
                           [fn |-> "check_service_health", svc |-> service, rc |-> ret])
                    /\ IF ret = 0
                       THEN /\ pc' = "status"
                            /\ UNCHANGED exitCode
                       ELSE Exit(ret)
            /\ UNCHANGED idx
    /\ UNCHANGED <<SERVICES, WAIT_FOR_STABLE, failed_services,
                   updated_services, summary>>
    /\ UNCHANGED otherThanUpdate

\* Line 237: check_service_health (lines 143-172) as a simple command of
\* main; under set -e a non-zero return ends the script with that status.
CheckServiceHealth ==
    /\ pc = "health"
    /\ idx <= Len(updated_services)
    /\ \E run \in CountResponses, des \in CountResponses :
         LET service == updated_services[idx]
             ret == CheckServiceHealthReturn(run.out, des.out)
         IN /\ awsCalls' = awsCalls \o
                   <<[cmd |-> "describe-runningCount", svc |-> service, rc |-> run.rc,
                      out |-> run.out],
                     [cmd |-> "describe-desiredCount", svc |-> service, rc |-> des.rc,
                      out |-> des.out]>>
            /\ calls' = Append(calls,
                   [fn |-> "check_service_health", svc |-> service, rc |-> ret])
            /\ IF ret = 0
               THEN /\ pc' = "status"
                    /\ UNCHANGED exitCode
               ELSE Exit(ret)
    /\ UNCHANGED <<SERVICES, WAIT_FOR_STABLE, idx, failed_services,
                   updated_services, summary>>
    /\ UNCHANGED otherThanUpdate

\* Line 238: get_deployment_status (lines 128-140); its status is that of
\* the aws command, and under set -e a failure ends the script with it.
GetDeploymentStatus ==
    /\ pc = "status"
    /\ \E rc \in AwsExitCodes :
         LET service == updated_services[idx]
         IN /\ awsCalls' = Append(awsCalls,
                   [cmd |-> "describe-deployments", svc |-> service, rc |-> rc,
                    out |-> ""])
            /\ calls' = Append(calls,
                   [fn |-> "get_deployment_status", svc |-> service, rc |-> rc])
            /\ IF rc = 0
               THEN /\ pc' = "health"
                    /\ idx' = idx + 1
                    /\ UNCHANGED exitCode
               ELSE /\ Exit(rc)
                    /\ UNCHANGED idx
    /\ UNCHANGED <<SERVICES, WAIT_FOR_STABLE, failed_services,
                   updated_services, summary>>
    /\ UNCHANGED otherThanUpdate

\* The summary that lists the updated services in both branches.
Summary_ListsUpdated ==
    /\ pc = "health"
    /\ idx > Len(updated_services)
    /\ IF Len(failed_services) = 0
       THEN /\ summary' = summary \o
                   <<[level |-> "info", msg |-> "All services updated successfully",
                      services |-> <<>>],
                     [level |-> "info", msg |-> "Updated services",
                      services |-> updated_services]>>
            /\ Exit(0)
       ELSE /\ summary' = summary \o
                   <<[level |-> "error", msg |-> "The following services failed",
                      services |-> failed_services],
                     [level |-> "info", msg |-> "Updated services",
                      services |-> updated_services]>>
            /\ Exit(1)
    /\ UNCHANGED <<SERVICES, WAIT_FOR_STABLE, idx, failed_services,
                   updated_services, calls, awsCalls>>
    /\ UNCHANGED otherThanUpdate

\* The summary (lines 247-263) after the health loop has ended.
Summary ==
    /\ pc = "health"
    /\ idx > Len(updated_services)
    /\ IF Len(failed_services) = 0
       THEN /\ summary' = summary \o
                   <<[level |-> "info", msg |-> "All services updated successfully",
                      services |-> <<>>],
                     [level |-> "info", msg |-> "Updated services",
                      services |-> updated_services]>>
            /\ Exit(0)
       ELSE /\ summary' = Append(summary,
                   [level |-> "error", msg |-> "The following services failed",
                    services |-> failed_services])
            /\ Exit(1)
    /\ UNCHANGED <<SERVICES, WAIT_FOR_STABLE, idx, failed_services,
                   updated_services, calls, awsCalls>>
    /\ UNCHANGED otherThanUpdate

Next ==
    \/ CheckPrerequisites
    \/ TriggerService
    \/ TriggerDone
    \/ WaitService
    \/ WaitDone
    \/ CheckServiceHealth
    \/ GetDeploymentStatus
    \/ Summary

Spec == Init /\ [][Next]_vars

\* -------------------------------------------------------- type invariant
TypeOK ==
    /\ pc \in {"prerequisites", "trigger", "wait", "health", "status", "done"}
    /\ exitCode \in 0..255 \cup {Running}
    /\ (pc = "done") <=> (exitCode # Running)
    /\ idx \in 1..(Len(SERVICES) + 1)

\* ------------------------------------------- observations of a finished run
Done == pc = "done"

\* The invocations of one function, in the order they were made.
CallsOf(fn) == SelectSeq(calls, LAMBDA c : c.fn = fn)

\* The services for which fn was invoked and returned status rc.
Returned(fn, rc) ==
    {calls[i].svc : i \in {k \in DOMAIN calls : calls[k].fn = fn /\ calls[k].rc = rc}}

NonZero(fn) ==
    {calls[i].svc : i \in {k \in DOMAIN calls : calls[k].fn = fn /\ calls[k].rc # 0}}

Range(seq) == {seq[i] : i \in DOMAIN seq}

\* check_prerequisites reached line 61.
PrerequisitesPassed ==
    \E i \in DOMAIN awsCalls :
        awsCalls[i].cmd = "describe-clusters" /\ awsCalls[i].rc = 0

\* update_service was called for every service of the list and returned 0.
AllTriggered == Returned("update_service", 0) = Range(SERVICES)

\* No wait_for_service call has failed (none was made, or all returned 0).
NoWaitFailed == NonZero("wait_for_service") = {}

\* wait_for_service returned 0 for every service of the list.
AllStable == Returned("wait_for_service", 0) = Range(SERVICES)

\* The services the final report lists under the given heading.
Reported(msg) ==
    UNION {Range(summary[i].services) :
             i \in {k \in DOMAIN summary : summary[k].msg = msg}}

\* ------------------------------------------------------------------- C1
\* C1: a run whose prerequisites pass, in which every update_service call
\* succeeds and waiting is off or every wait_for_service call succeeds,
\* ends with exit code 0 and reports the whole input list as updated,
\* whatever the health-audit calls answer.
C1_FullSuccessExitsZero ==
    (Done /\ PrerequisitesPassed /\ AllTriggered
       /\ (WAIT_FOR_STABLE # "true" \/ AllStable))
    => (exitCode = 0 /\ Reported("Updated services") = Range(SERVICES))

\* ------------------------------------------------------------------- C2
\* C2: once an update_service call has failed, wait_for_service is never
\* invoked for any service (no wait command is issued, the wait and health
\* phases are not entered), and the run ends with exit code 1.
C2_TriggerFailureIsFatal ==
    (NonZero("update_service") # {})
    => /\ CallsOf("wait_for_service") = <<>>
       /\ \A i \in DOMAIN awsCalls : awsCalls[i].cmd # "wait-services-stable"
       /\ pc \in {"trigger", "done"}
       /\ (Done => exitCode = 1)

\* A finished run in which one trigger failed and another succeeded.
C2_Witness ==
    /\ Done
    /\ NonZero("update_service") # {}
    /\ Returned("update_service", 0) # {}
    /\ Len(CallsOf("update_service")) = Len(SERVICES)

\* ------------------------------------------------------------------- C3
\* C3: the health audit never changes the exit code: a finished run in
\* which every trigger succeeded and no wait failed has exit code 0 also
\* when check_service_health or get_deployment_status returned non-zero,
\* and the failed list holds only services whose trigger or wait failed.
C3_HealthIsAdvisory ==
    /\ (Done /\ AllTriggered /\ NoWaitFailed
          /\ NonZero("check_service_health") \cup NonZero("get_deployment_status") # {})
       => exitCode = 0
    /\ Range(failed_services)
         \subseteq NonZero("update_service") \cup NonZero("wait_for_service")

\* ------------------------------------------------------------------- C4
\* C4: the exit code of a finished run is 0 or 1; it is 0 only when every
\* service was triggered and (when waiting is on) stabilized, and it is 1
\* after any trigger failure, wait failure or failed prerequisite.
C4_ExitCodeZeroOrOne ==
    Done =>
      /\ exitCode \in {0, 1}
      /\ (exitCode = 0 =>
            AllTriggered /\ (WAIT_FOR_STABLE = "true" => AllStable))
      /\ ((~PrerequisitesPassed \/ NonZero("update_service") # {}
             \/ NonZero("wait_for_service") # {}) => exitCode = 1)

\* ------------------------------------------------------------------- C5
\* C5: a failed wait does not stop the wait phase: in a finished run in
\* which a wait failed, wait_for_service was invoked for every triggered
\* service in list order, the exit code is 1 and the failed list is exactly
\* the services whose wait failed.
C5_WaitFailureContinues ==
    (Done /\ NonZero("wait_for_service") # {})
    => /\ [i \in DOMAIN CallsOf("wait_for_service") |->
              CallsOf("wait_for_service")[i].svc] = updated_services
       /\ exitCode = 1
       /\ Range(failed_services) = NonZero("wait_for_service")

\* ------------------------------------------------------------------- C6
\* C6 (as stated): a run that ends with exit code 1 after some waits failed
\* and others succeeded names the failed services in its final report and
\* also reports the services that succeeded.
C6_ReportsSucceededToo ==
    (Done /\ exitCode = 1 /\ summary # <<>>
       /\ NonZero("wait_for_service") # {}
       /\ Returned("wait_for_service", 0) # {})
    => /\ Reported("The following services failed") = NonZero("wait_for_service")
       /\ Reported("Updated services") = Returned("wait_for_service", 0)

\* C6 (amended): a run that reaches the final summary after a wait failed
\* ends with exit code 1 and its final report is the single error line
\* naming the failed services, in the order their waits failed; no line of
\* it lists a service that succeeded.
C6_ReportsFailedOnly ==
    (Done /\ summary # <<>> /\ NonZero("wait_for_service") # {})
    => /\ exitCode = 1
       /\ summary = <<[level |-> "error", msg |-> "The following services failed",
                       services |-> failed_services]>>
       /\ Range(failed_services) = NonZero("wait_for_service")
       /\ Reported("Updated services") = {}
       /\ \A i \in DOMAIN summary :
            Range(summary[i].services) \cap Returned("wait_for_service", 0) = {}

\* A run over the fleet that reached the summary with one wait failed and
\* another succeeded.
C6_Witness ==
    /\ Done
    /\ summary # <<>>
    /\ "frontend" \in NonZero("wait_for_service")
    /\ "auth" \in Returned("wait_for_service", 0)

\* ------------------------------------------------------------------- C7
\* C7: when a prerequisite check fails (aws missing, or describe-clusters
\* fails) no update_service, wait_for_service or health-audit call is ever
\* made, no aws command other than describe-clusters is issued, both lists
\* stay empty, nothing is reported, and the run ends with exit code 1.
C7_PrerequisiteFailureAborts ==
    (~PrerequisitesPassed)
    => /\ calls = <<>>
       /\ \A i \in DOMAIN awsCalls : awsCalls[i].cmd = "describe-clusters"
       /\ updated_services = <<>>
       /\ failed_services = <<>>
       /\ summary = <<>>
       /\ pc \in {"prerequisites", "done"}
       /\ (Done => exitCode = 1)

\* A run that ended because describe-clusters failed.
C7_Witness ==
    /\ Done
    /\ ~PrerequisitesPassed
    /\ awsCalls # <<>>

\* ------------------------------------------------------------------- C8
\* C8: a finished run that passed the prerequisite check has audited the
\* health of every service whose trigger succeeded and has reached the
\* final summary.
C8_AuditAlwaysRuns ==
    (Done /\ PrerequisitesPassed)
    => /\ Returned("update_service", 0)
            \subseteq {c.svc : c \in Range(CallsOf("check_service_health"))}
       /\ summary # <<>>

\* ------------------------------------------------------------------- C9
\* C9: when a wait_for_service call is made, update_service has been called
\* for every service of the list and is not called afterwards; and with
\* waiting enabled, a service's health audit is made only after that
\* service's wait_for_service call has returned.
C9_PhaseOrdering ==
    /\ \A i \in DOMAIN calls :
         calls[i].fn = "wait_for_service" =>
           /\ {calls[k].svc : k \in {j \in 1..(i-1) : calls[j].fn = "update_service"}}
                = Range(SERVICES)
           /\ \A k \in DOMAIN calls : k > i => calls[k].fn # "update_service"
    /\ WAIT_FOR_STABLE = "true" =>
         \A i \in DOMAIN calls :
           calls[i].fn \in {"check_service_health", "get_deployment_status"} =>
             \E k \in 1..(i-1) :
               calls[k].fn = "wait_for_service" /\ calls[k].svc = calls[i].svc

\* A fleet run with waiting enabled that audited its last service.
C9_Witness ==
    /\ WAIT_FOR_STABLE = "true"
    /\ Len(SERVICES) > 1
    /\ SERVICES[Len(SERVICES)] \in
         {c.svc : c \in Range(CallsOf("check_service_health"))}

\* ------------------------------------------------------------------ C10
\* C10: with WAIT_FOR_STABLE other than "true", wait_for_service is never
\* invoked, the failed list holds only trigger failures, and a finished run
\* that passed the prerequisites has exit code 0 exactly when every
\* trigger succeeded.
C10_NoWaitJudgedOnTriggers ==
    (WAIT_FOR_STABLE # "true")
    => /\ CallsOf("wait_for_service") = <<>>
       /\ Range(failed_services) = NonZero("update_service")
       /\ ((Done /\ PrerequisitesPassed) => (exitCode = 0 <=> AllTriggered))

\* ------------------------------------------------------------------ C12
\* C12: the force-new-deployment command is issued for a service only
\* directly after that service's status lookup printed ACTIVE; after any
\* other lookup result (another status, None, a failed lookup with empty
\* output) update_service returns 1 and no force-new-deployment command is
\* issued for that service.
C12_RedeployOnlyWhenActive ==
    /\ \A i \in DOMAIN awsCalls :
         awsCalls[i].cmd = "update-service" =>
           /\ i > 1
           /\ awsCalls[i-1].cmd = "describe-status"
           /\ awsCalls[i-1].svc = awsCalls[i].svc
           /\ awsCalls[i-1].out = "ACTIVE"
    /\ \A i \in DOMAIN awsCalls :
         (awsCalls[i].cmd = "describe-status" /\ awsCalls[i].out # "ACTIVE") =>
           /\ awsCalls[i].svc \in NonZero("update_service")
           /\ \A k \in DOMAIN awsCalls :
                awsCalls[k].cmd = "update-service" => awsCalls[k].svc # awsCalls[i].svc

\* A fleet run in which one service was found draining and another was
\* redeployed.
C12_Witness ==
    /\ \E i \in DOMAIN awsCalls :
         awsCalls[i].cmd = "describe-status" /\ awsCalls[i].out = "DRAINING"
    /\ \E i \in DOMAIN awsCalls :
         awsCalls[i].cmd = "describe-status" /\ awsCalls[i].rc # 0
    /\ \E i \in DOMAIN awsCalls : awsCalls[i].cmd = "update-service"

\* ------------------------------------------------------------------ C13
\* C13: the trigger phase never stops mid-phase: the update_service calls
\* made so far are exactly the first services of the list, once each and in
\* list order, whatever the earlier results; after the phase they are the
\* whole list; and at the end of the phase every service of the list is in
\* exactly one of the updated and the failed list.
C13_TriggerPhaseCoversList ==
    LET triggered == [i \in DOMAIN CallsOf("update_service") |->
                         CallsOf("update_service")[i].svc]
    IN /\ pc = "trigger" => triggered = SubSeq(SERVICES, 1, idx - 1)
       /\ (PrerequisitesPassed /\ pc # "prerequisites"
             /\ (pc = "trigger" => idx > Len(SERVICES)))
          => triggered = SERVICES
       /\ (pc = "trigger" /\ idx > Len(SERVICES)) =>
            /\ \A s \in Range(SERVICES) :
                 (s \in Range(updated_services)) # (s \in Range(failed_services))
            /\ Len(updated_services) + Len(failed_services) = Len(SERVICES)

\* The end of a trigger phase over the fleet whose first trigger failed and
\* whose last succeeded.
C13_Witness ==
    /\ pc = "trigger"
    /\ idx > Len(SERVICES)
    /\ Len(SERVICES) > 1
    /\ SERVICES[1] \in Range(failed_services)
    /\ SERVICES[Len(SERVICES)] \in Range(updated_services)

C15_NoRetries ==
    /\ [](\A s \in Range(SERVICES) :
            /\ Cardinality({i \in DOMAIN awsCalls :
                   awsCalls[i].cmd = "update-service" /\ awsCalls[i].svc = s}) <= 1
            /\ Cardinality({i \in DOMAIN awsCalls :
                   awsCalls[i].cmd = "wait-services-stable" /\ awsCalls[i].svc = s}) <= 1
            /\ Cardinality({i \in DOMAIN calls :
                   calls[i].fn = "update_service" /\ calls[i].svc = s}) <= 1
            /\ Cardinality({i \in DOMAIN calls :
                   calls[i].fn = "wait_for_service" /\ calls[i].svc = s}) <= 1)
    /\ [][/\ Len(failed_services') >= Len(failed_services)
          /\ SubSeq(failed_services', 1, Len(failed_services)) = failed_services]_vars

\* After a failed wait of one service the run went on to another service.
C15_Witness ==
    \E i \in DOMAIN calls :
        /\ calls[i].fn = "wait_for_service"
        /\ calls[i].rc # 0
        /\ i < Len(calls)
        /\ calls[i+1].svc # calls[i].svc

\* ------------------------------------------------------------------ C16
\* C16: when the wait phase or the health audit is reached no trigger has
\* failed and the updated list is the input list in input order, and the
\* failed list holds only wait failures; at the final summary the failed
\* list is duplicate-free, a subset of the updated list, and exactly the
\* services whose wait failed.
C16_ListsAfterTriggerPhase ==
    /\ pc \in {"wait", "health", "status"} =>
         /\ NonZero("update_service") = {}
         /\ updated_services = SERVICES
         /\ Range(failed_services) = NonZero("wait_for_service")
    /\ (Reported("The following services failed") # {}
          \/ Reported("Updated services") # {}) =>
         /\ Cardinality(Range(failed_services)) = Len(failed_services)
         /\ Range(failed_services) \subseteq Range(updated_services)
         /\ Range(failed_services) = NonZero("wait_for_service")
         /\ updated_services = SERVICES

\* The final summary of a fleet run in which two waits failed.
C16_Witness ==
    /\ Done
    /\ Reported("The following services failed") # {}
    /\ Len(failed_services) >= 2

\* =================================================== build-and-push.sh
\* Exit statuses of a docker command.
DockerExitCodes == {0, 1}

\* Values of the environment variable AWS_ACCOUNT_ID ("" is: unset).
AccountEnv == {"", "123456789012"}

\* Answers of `aws sts get-caller-identity --query Account` (line 62).
StsResponses ==
    {[rc |-> 0, out |-> "123456789012"], [rc |-> 0, out |-> ""]}
      \cup {[rc |-> c, out |-> ""] : c \in AwsFailCodes}

\* SERVICES of lines 23-27 of build-and-push.sh.
BP_ServicesOf(arg) ==
    IF arg = "" THEN <<"auth", "users", "tasks", "frontend">> ELSE <<arg>>

\* Return status of build_image (lines 97-122) given the two file tests and
\* the exit status of docker build.
BuildImageReturn(dirExists, dockerfileExists, buildRc) ==
    IF ~dirExists THEN 1
    ELSE IF ~dockerfileExists THEN 1
    ELSE IF buildRc = 0 THEN 0 ELSE 1

\* The docker commands build_image issues.
BuildImageCmds(svc, dirExists, dockerfileExists, buildRc) ==
    IF dirExists /\ dockerfileExists
    THEN <<[cmd |-> "docker build", svc |-> svc, rc |-> buildRc]>>
    ELSE <<>>

\* Return status of push_image (lines 135-155): the two docker tag
\* commands are not tested, each docker push is.
PushImageReturn(tagRc, tagLatestRc, pushRc, pushLatestRc) ==
    IF pushRc # 0 THEN 1
    ELSE IF pushLatestRc # 0 THEN 1 ELSE 0

\* The docker commands push_image issues; the status of a docker tag is
\* not looked at and is not recorded.
PushImageCmds(svc, tagRc, tagLatestRc, pushRc, pushLatestRc) ==
    <<[cmd |-> "docker tag", svc |-> svc],
      [cmd |-> "docker tag latest", svc |-> svc],
      [cmd |-> "docker push", svc |-> svc, rc |-> pushRc]>>
      \o (IF pushRc # 0 THEN <<>>
          ELSE <<[cmd |-> "docker push latest", svc |-> svc, rc |-> pushLatestRc]>>)

\* build-and-push.sh ends with the given status (exit, or set -e).
BP_Exit(code) ==
    /\ bp_pc' = "done"
    /\ bp_exitCode' = code

\* State after the configuration lines 17-27 of build-and-push.sh;
\* update-services.sh is not running.
BP_Init ==
    /\ \E arg \in Args : bp_SERVICES = BP_ServicesOf(arg)
    /\ bp_pc = "prerequisites"
    /\ bp_idx = 1
    /\ bp_failed_services = <<>>
    /\ bp_calls = <<>>
    /\ bp_cmds = <<>>
    /\ bp_exitCode = Running
    /\ US_Idle
    /\ App_Idle

\* check_prerequisites (lines 47-71), called at line 171.  The assignment
\* of line 62 has the status of its command substitution, so under set -e
\* a failing aws sts ends the script with that status.
BP_CheckPrerequisites ==
    /\ bp_pc = "prerequisites"
    /\ \E docker \in BOOLEAN, aws \in BOOLEAN, account \in AccountEnv,
          sts \in StsResponses :
         IF ~docker \/ ~aws
         THEN /\ BP_Exit(1)
              /\ UNCHANGED bp_cmds
         ELSE IF account # ""
         THEN /\ bp_pc' = "login"
              /\ UNCHANGED <<bp_cmds, bp_exitCode>>
         ELSE /\ bp_cmds' = Append(bp_cmds,
                     [cmd |-> "aws sts get-caller-identity", svc |-> "", rc |-> sts.rc])
              /\ IF sts.rc # 0 THEN BP_Exit(sts.rc)
                 ELSE IF sts.out = "" THEN BP_Exit(1)
                 ELSE /\ bp_pc' = "login"
                      /\ UNCHANGED bp_exitCode
    /\ UNCHANGED <<bp_SERVICES, bp_idx, bp_failed_services, bp_calls>>
    /\ UNCHANGED otherThanBuild

\* login_to_ecr (lines 74-87), called at line 174.  The pipeline has the
\* status of docker login; under set -e a failure ends the script there.
BP_LoginToEcr ==
    /\ bp_pc = "login"
    /\ \E passwordRc \in AwsExitCodes, loginRc \in DockerExitCodes :
         /\ bp_cmds' = bp_cmds \o
                <<[cmd |-> "aws ecr get-login-password", svc |-> "", rc |-> passwordRc],
                  [cmd |-> "docker login", svc |-> "", rc |-> loginRc]>>
         /\ IF loginRc # 0
            THEN /\ BP_Exit(loginRc)
                 /\ UNCHANGED bp_idx
            ELSE /\ bp_pc' = "build"
                 /\ bp_idx' = 1
                 /\ UNCHANGED bp_exitCode
    /\ UNCHANGED <<bp_SERVICES, bp_failed_services, bp_calls>>
    /\ UNCHANGED otherThanBuild

\* The build step without the continue of line 189.
BP_BuildImage_NoContinue ==
    /\ bp_pc = "build"
    /\ bp_idx <= Len(bp_SERVICES)
    /\ \E dirExists \in BOOLEAN, dockerfileExists \in BOOLEAN,
          buildRc \in DockerExitCodes :
         LET service == bp_SERVICES[bp_idx]
             ret == BuildImageReturn(dirExists, dockerfileExists, buildRc)
         IN /\ bp_cmds' = bp_cmds \o
                   BuildImageCmds(service, dirExists, dockerfileExists, buildRc)
            /\ bp_calls' = Append(bp_calls,
                   [fn |-> "build_image", svc |-> service, rc |-> ret])
            /\ bp_failed_services' = IF ret # 0
                                     THEN Append(bp_failed_services, service)
                                     ELSE bp_failed_services
            /\ bp_pc' = "push"
            /\ UNCHANGED bp_idx
    /\ UNCHANGED <<bp_SERVICES, bp_exitCode>>
    /\ UNCHANGED otherThanBuild

\* The build step of one loop iteration (lines 179-190) with the call of
\* build_image (lines 90-123) it makes.
BP_BuildImage ==
    /\ bp_pc = "build"
    /\ bp_idx <= Len(bp_SERVICES)
    /\ \E dirExists \in BOOLEAN, dockerfileExists \in BOOLEAN,
          buildRc \in DockerExitCodes :
         LET service == bp_SERVICES[bp_idx]
             ret == BuildImageReturn(dirExists, dockerfileExists, buildRc)
         IN /\ bp_cmds' = bp_cmds \o
                   BuildImageCmds(service, dirExists, dockerfileExists, buildRc)
            /\ bp_calls' = Append(bp_calls,
                   [fn |-> "build_image", svc |-> service, rc |-> ret])
            /\ IF ret # 0
               THEN /\ bp_failed_services' = Append(bp_failed_services, service)
                    /\ bp_idx' = bp_idx + 1
                    /\ UNCHANGED bp_pc
               ELSE /\ bp_pc' = "push"
                    /\ UNCHANGED <<bp_failed_services, bp_idx>>
    /\ UNCHANGED <<bp_SERVICES, bp_exitCode>>
    /\ UNCHANGED otherThanBuild

\* The push step of one loop iteration (lines 192-198) with the call of
\* push_image (lines 126-156) it makes.
BP_PushImage ==
    /\ bp_pc = "push"
    /\ \E tagRc \in DockerExitCodes, tagLatestRc \in DockerExitCodes,
          pushRc \in DockerExitCodes, pushLatestRc \in DockerExitCodes :
         LET service == bp_SERVICES[bp_idx]
             ret == PushImageReturn(tagRc, tagLatestRc, pushRc, pushLatestRc)
         IN /\ bp_cmds' = bp_cmds \o
                   PushImageCmds(service, tagRc, tagLatestRc, pushRc, pushLatestRc)
            /\ bp_calls' = Append(bp_calls,
                   [fn |-> "push_image", svc |-> service, rc |-> ret])
            /\ bp_failed_services' = IF ret # 0
                                     THEN Append(bp_failed_services, service)
                                     ELSE bp_failed_services
    /\ bp_pc' = "build"
    /\ bp_idx' = bp_idx + 1
    /\ UNCHANGED <<bp_SERVICES, bp_exitCode>>
    /\ UNCHANGED otherThanBuild

\* The summary of build-and-push.sh (lines 207-218) after the loop.
BP_Summary ==
    /\ bp_pc = "build"
    /\ bp_idx > Len(bp_SERVICES)
    /\ IF Len(bp_failed_services) = 0 THEN BP_Exit(0) ELSE BP_Exit(1)
    /\ UNCHANGED <<bp_SERVICES, bp_idx, bp_failed_services, bp_calls, bp_cmds>>
    /\ UNCHANGED otherThanBuild

BP_Next ==
    \/ BP_CheckPrerequisites
    \/ BP_LoginToEcr
    \/ BP_BuildImage
    \/ BP_PushImage
    \/ BP_Summary

SpecBuild == BP_Init /\ [][BP_Next]_bpVars

\* The services for which build-and-push.sh invoked fn with a non-zero return.
BP_NonZero(fn) ==
    {bp_calls[i].svc :
       i \in {k \in DOMAIN bp_calls : bp_calls[k].fn = fn /\ bp_calls[k].rc # 0}}

\* The services for which build_image has been invoked, in order.
BP_Built ==
    LET b == SelectSeq(bp_calls, LAMBDA c : c.fn = "build_image")
    IN [i \in DOMAIN b |-> b[i].svc]

\* login_to_ecr reached line 82.
BP_LoggedIn ==
    \E i \in DOMAIN bp_cmds : bp_cmds[i].cmd = "docker login" /\ bp_cmds[i].rc = 0

\* ------------------------------------------------------------------ C17
\* C17: in build-and-push.sh push_image is invoked for a service only
\* directly after build_image returned 0 for it; the failed list is, in
\* order and without repetition, the services whose build or push failed,
\* and a failure does not stop the loop (build_image is invoked for every
\* service in list order); a run that got past the login ends with exit
\* code 0 exactly when the failed list is empty and with 1 otherwise; and
\* no build, tag or push happens unless the prerequisite check and the
\* login succeeded.
C17_BuildThenPush ==
    /\ \A i \in DOMAIN bp_calls :
         bp_calls[i].fn = "push_image" =>
           /\ i > 1
           /\ bp_calls[i-1] = [fn |-> "build_image", svc |-> bp_calls[i].svc, rc |-> 0]
    /\ Range(bp_failed_services) = BP_NonZero("build_image") \cup BP_NonZero("push_image")
    /\ Cardinality(Range(bp_failed_services)) = Len(bp_failed_services)
    /\ bp_failed_services =
         SelectSeq(BP_Built, LAMBDA x : x \in Range(bp_failed_services))
    /\ bp_pc = "build" => BP_Built = SubSeq(bp_SERVICES, 1, bp_idx - 1)
    /\ (bp_pc = "done" /\ BP_LoggedIn) =>
         /\ BP_Built = bp_SERVICES
         /\ bp_exitCode \in {0, 1}
         /\ (bp_exitCode = 0 <=> bp_failed_services = <<>>)
    /\ ~BP_LoggedIn =>
         /\ bp_calls = <<>>
         /\ bp_failed_services = <<>>
         /\ \A i \in DOMAIN bp_cmds :
              bp_cmds[i].cmd \in {"aws sts get-caller-identity",
                                  "aws ecr get-login-password", "docker login"}
         /\ bp_exitCode # 0

\* A finished fleet run in which the first build failed, a later push
\* failed and the last service was built and pushed.
C17_Witness ==
    /\ bp_pc = "done"
    /\ Len(bp_SERVICES) > 1
    /\ bp_SERVICES[1] \in BP_NonZero("build_image")
    /\ BP_NonZero("push_image") # {}
    /\ bp_calls[Len(bp_calls)] =
         [fn |-> "push_image", svc |-> bp_SERVICES[Len(bp_SERVICES)], rc |-> 0]

\* ============================================ tasks service and the App
\* Largest number of requests the user starts (button clicks and submitted
\* forms) after the App is mounted.
MaxRequests == 2

\* What the user can type into a field of the form: a plain text, and a
\* text that contains the separator the tasks service writes between records.
FormValues == {<<"a">>, <<"b", "TASK_SPLIT", "c">>}

\* The tasks the user submits: at least one field is the plain text.
PostedTasks ==
    {Task(ti, te) : ti \in FormValues, te \in FormValues} \
      {Task(<<"b", "TASK_SPLIT", "c">>, <<"b", "TASK_SPLIT", "c">>)}

\* ------------------------------------------------ tasks service, pure parts
\* JSON.stringify(task) of line 83: the text of the object {title, text}.
\* "{", "," and "}" stand for the punctuation of the object (a quote inside
\* a string is escaped and cannot be taken for it); the pieces of the two
\* strings are copied as they are.
Stringify(task) == <<"{">> \o task.title \o <<",">> \o task.text \o <<"}">>

\* The position of the first separator in the text, 0 when there is none.
IndexOfSplit(str) ==
    IF \E i \in DOMAIN str : str[i] = "TASK_SPLIT"
    THEN CHOOSE i \in DOMAIN str :
           str[i] = "TASK_SPLIT" /\ \A k \in 1..(i-1) : str[k] # "TASK_SPLIT"
    ELSE 0

\* strData.split("TASK_SPLIT") of line 60.
RECURSIVE Split(_)
Split(str) ==
    IF IndexOfSplit(str) = 0 THEN <<str>>
    ELSE <<SubSeq(str, 1, IndexOfSplit(str) - 1)>>
           \o Split(SubSeq(str, IndexOfSplit(str) + 1, Len(str)))

\* entries.pop() of line 61.
Pop(entries) == SubSeq(entries, 1, Len(entries) - 1)

\* Does JSON.parse (line 63) accept the text as an object {title, text}.
Parses(json) ==
    /\ Len(json) >= 3
    /\ json[1] = "{"
    /\ json[Len(json)] = "}"
    /\ Cardinality({i \in DOMAIN json : json[i] = ","}) = 1
    /\ \A i \in 2..(Len(json) - 1) : json[i] \notin {"{", "}"}

\* JSON.parse of a text it accepts.
Parse(json) ==
    LET c == CHOOSE i \in DOMAIN json : json[i] = ","
    IN Task(SubSeq(json, 2, c - 1), SubSeq(json, c + 1, Len(json) - 1))

\* The readFile callback of GET /tasks (lines 59-67): the status and the
\* tasks it answers; status -1 is: JSON.parse threw inside the callback, no
\* response is sent and the uncaught exception ends the process.
GetTasks(data) ==
    LET entries == Pop(Split(data))
    IN IF \A i \in DOMAIN entries : Parses(entries[i])
       THEN [status |-> 200, tasks |-> [i \in DOMAIN entries |-> Parse(entries[i])]]
       ELSE [status |-> -1, tasks |-> <<>>]

\* What appendFile is given at line 84.
AppendData(task) == Stringify(task) \o <<"TASK_SPLIT">>

\* ------------------------------------------------------- App, pure parts
\* The tasks state fetchTasks sets for a response (lines 238-263).
FetchResult(resp) ==
    IF ~resp.ok THEN Arr(<<>>)
    ELSE IF resp.shape = "tasksObject" THEN Arr(resp.tasks)
    ELSE IF resp.shape = "array" THEN Arr(resp.tasks)
    ELSE Arr(<<>>)

\* What addTaskHandler does with a response (lines 282-301): the tasks state
\* and whether it calls fetchTasks.  For a null or unparsable body the
\* promise rejects and the catch only logs.
AddResult(resp, prevTasks) ==
    IF ~resp.ok THEN [tasks |-> prevTasks, refetch |-> FALSE]
    ELSE IF resp.shape \in {"null", "malformed"}
    THEN [tasks |-> prevTasks, refetch |-> FALSE]
    ELSE IF resp.shape = "created"
    THEN [tasks |-> Arr(prevTasks.items \o resp.created), refetch |-> FALSE]
    ELSE [tasks |-> prevTasks, refetch |-> TRUE]

\* The request fetchTasks sends (lines 233-237).
GetRequest(id) ==
    [id |-> id, method |-> "GET", task |-> Task(<<>>, <<>>), resp |-> NoResponse]

\* The request addTaskHandler sends (lines 274-281).
PostRequest(id, task) ==
    [id |-> id, method |-> "POST", task |-> task, resp |-> NoResponse]

\* The responses of the tasks service: 200 with the tasks (lines 64-67),
\* 201 with the created task (lines 91-96), 500 (lines 55-57, 87-89).
Loaded(list) ==
    [from |-> "service", ok |-> TRUE, shape |-> "tasksObject", tasks |-> list,
     created |-> <<>>]

Created(task) ==
    [from |-> "service", ok |-> TRUE, shape |-> "created", tasks |-> <<>>,
     created |-> <<task>>]

Failed500 ==
    [from |-> "service", ok |-> FALSE, shape |-> "object", tasks |-> <<>>,
     created |-> <<>>]

\* Responses of something other than the tasks service on the path (a
\* proxy, a load balancer, another backend): an error status, and the 2xx
\* responses the tasks service does not give: an object without tasks and
\* createdTask, null, a body that is not JSON, and a bare array.
ForeignResponses ==
    {[from |-> "gateway", ok |-> FALSE, shape |-> "object", tasks |-> <<>>,
      created |-> <<>>]}
      \cup {[from |-> "gateway", ok |-> TRUE, shape |-> sh, tasks |-> <<>>,
             created |-> <<>>] : sh \in {"object", "null", "malformed"}}
      \cup {[from |-> "gateway", ok |-> TRUE, shape |-> "array",
             tasks |-> <<Task(<<"a">>, <<"a">>)>>, created |-> <<>>]}

\* ------------------------------------------------------------------ Init
\* The App has been mounted: tasks is [] (line 230) and the effect of lines
\* 266-271 has called fetchTasks; tasks.txt is empty.
App_Init ==
    /\ tasks = Arr(<<>>)
    /\ requests = {GetRequest(1)}
    /\ nextId = 2
    /\ delivery = "none"
    /\ file = <<>>
    /\ crashed = FALSE
    /\ stored = <<>>
    /\ anyFailure = FALSE
    /\ US_Idle
    /\ BP_Idle

\* The user has requests left to start.
UserMayRequest == nextId <= MaxRequests + 1

\* ---------------------------------------------------------------- App
\* The button of line 310: fetchTasks sends a GET.
App_FetchTasks ==
    /\ UserMayRequest
    /\ requests' = requests \cup {GetRequest(nextId)}
    /\ nextId' = nextId + 1
    /\ UNCHANGED <<tasks, delivery, file, crashed, stored, anyFailure>>
    /\ UNCHANGED otherThanApp

\* The form of line 307: addTaskHandler sends a POST with the task.
App_AddTask ==
    /\ UserMayRequest
    /\ \E task \in PostedTasks :
         requests' = requests \cup {PostRequest(nextId, task)}
    /\ nextId' = nextId + 1
    /\ UNCHANGED <<tasks, delivery, file, crashed, stored, anyFailure>>
    /\ UNCHANGED otherThanApp

\* A response reaches the App: the then-chain of fetchTasks (lines 238-258)
\* or of addTaskHandler (lines 282-298) runs, with its catch.
App_Receive ==
    /\ \E req \in requests :
         /\ req.resp.shape # "none"
         /\ LET add == AddResult(req.resp, tasks)
                refetch == req.method = "POST" /\ add.refetch
            IN /\ tasks' = IF req.method = "GET" THEN FetchResult(req.resp)
                           ELSE add.tasks
               /\ requests' = (requests \ {req})
                     \cup (IF refetch THEN {GetRequest(nextId)} ELSE {})
               /\ nextId' = IF refetch THEN nextId + 1 ELSE nextId
    /\ delivery' = "response"
    /\ UNCHANGED <<file, crashed, stored, anyFailure>>
    /\ UNCHANGED otherThanApp

\* fetch rejects (the connection failed or was closed without a response):
\* the catch of fetchTasks (lines 259-263) or of addTaskHandler (299-301).
App_NetworkError ==
    /\ \E req \in requests :
         /\ tasks' = IF req.method = "GET" THEN Arr(<<>>) ELSE tasks
         /\ requests' = requests \ {req}
    /\ delivery' = "rejected"
    /\ anyFailure' = TRUE
    /\ UNCHANGED <<nextId, file, crashed, stored>>
    /\ UNCHANGED otherThanApp

\* Something other than the tasks service answers a request.
Gateway_Answer ==
    /\ \E req \in requests, resp \in ForeignResponses :
         /\ req.resp.shape = "none"
         /\ requests' = (requests \ {req}) \cup {[req EXCEPT !.resp = resp]}
    /\ anyFailure' = TRUE
    /\ UNCHANGED <<tasks, nextId, delivery, file, crashed, stored>>
    /\ UNCHANGED otherThanApp

\* ------------------------------------------------------- tasks service
\* GET /tasks (lines 49-75): readFile and its callback.
Server_Get ==
    /\ ~crashed
    /\ \E req \in requests, readErr \in BOOLEAN :
         /\ req.method = "GET"
         /\ req.resp.shape = "none"
         /\ LET got == GetTasks(file)
            IN IF readErr
               THEN /\ requests' = (requests \ {req}) \cup
                                     {[req EXCEPT !.resp = Failed500]}
                    /\ anyFailure' = TRUE
                    /\ UNCHANGED crashed
               ELSE IF got.status = 200
               THEN /\ requests' = (requests \ {req}) \cup
                                     {[req EXCEPT !.resp = Loaded(got.tasks)]}
                    /\ UNCHANGED <<crashed, anyFailure>>
               ELSE /\ crashed' = TRUE
                    /\ anyFailure' = TRUE
                    /\ UNCHANGED requests
    /\ UNCHANGED <<tasks, nextId, delivery, file, stored>>
    /\ UNCHANGED otherThanApp

\* POST /tasks (lines 77-101): appendFile and its callback.
Server_Post ==
    /\ ~crashed
    /\ \E req \in requests, appendErr \in BOOLEAN :
         /\ req.method = "POST"
         /\ req.resp.shape = "none"
         /\ IF appendErr
            THEN /\ requests' = (requests \ {req}) \cup
                                  {[req EXCEPT !.resp = Failed500]}
                 /\ anyFailure' = TRUE
                 /\ UNCHANGED <<file, stored>>
            ELSE /\ file' = file \o AppendData(req.task)
                 /\ stored' = Append(stored, req.task)
                 /\ requests' = (requests \ {req}) \cup
                                  {[req EXCEPT !.resp = Created(req.task)]}
                 /\ UNCHANGED anyFailure
    /\ UNCHANGED <<tasks, nextId, delivery, crashed>>
    /\ UNCHANGED otherThanApp

App_Next ==
    \/ App_FetchTasks
    \/ App_AddTask
    \/ App_Receive
    \/ App_NetworkError
    \/ Gateway_Answer
    \/ Server_Get
    \/ Server_Post

SpecApp == App_Init /\ [][App_Next]_appVars

App_TypeOK ==
    /\ tasks.isArray \in BOOLEAN
    /\ nextId \in 2..(2 * MaxRequests + 2)
    /\ delivery \in {"none", "response", "rejected"}
    /\ \A r \in requests : r.method \in {"GET", "POST"} /\ r.id < nextId

\* ------------------------------------------------------------------ C18
\* C18: once no request of the App is outstanding and every request was
\* answered successfully by the tasks service, the tasks state of the App
\* is the list the tasks service has stored.
C18_SettledUiMatchesStore ==
    (requests = {} /\ ~anyFailure) => tasks = Arr(stored)

\* ------------------------------------------------------------------ C19
\* The request whose promise chain runs in this step, and the requests the
\* step sends.
Settles(req) == req \in requests /\ \A r \in requests' : r.id # req.id

Sent == {r \in requests' : \A q \in requests : q.id # r.id}

\* C19: tasks is always an array; a failed or malformed fetch
\* sets it to []; a failed add leaves it unchanged; and every successful
\* (2xx) add response without createdTask leaves it unchanged and sends a
\* new fetch.
C19_RefetchWheneverNoCreatedTask ==
    /\ [](tasks.isArray)
    /\ [][\A req \in requests : Settles(req) =>
            /\ (req.method = "GET" /\ (delivery' = "rejected" \/ ~req.resp.ok
                    \/ req.resp.shape \notin {"tasksObject", "array"}))
                 => (tasks' = Arr(<<>>) /\ Sent = {})
            /\ (req.method = "POST" /\ (delivery' = "rejected" \/ ~req.resp.ok))
                 => (tasks' = tasks /\ Sent = {})
            /\ (req.method = "POST" /\ delivery' = "response" /\ req.resp.ok
                    /\ req.resp.shape # "created")
                 => (tasks' = tasks /\ Sent = {GetRequest(nextId)})]_appVars

\* ------------------------------------------------------------------ C20
\* C20: the tasks service never dies on a GET; every 200 it has answered
\* carries tasks that were stored, in the order of their appends; and what
\* tasks.txt holds reads back as exactly the tasks of the successful POSTs
\* (a failed append left nothing), for every title and text.
C20_RoundTrip ==
    /\ ~crashed
    /\ \A r \in requests :
         (r.method = "GET" /\ r.resp.from = "service" /\ r.resp.ok) =>
           /\ Len(r.resp.tasks) <= Len(stored)
           /\ r.resp.tasks = SubSeq(stored, 1, Len(r.resp.tasks))
    /\ GetTasks(file).status = 200 => GetTasks(file).tasks = stored

====
